---- MODULE Spec2Model ----
(***************************************************************************)
(* A model of the portfolio tracker: the price fetcher with its two        *)
(* sources and the stockprice table, the performance calculator and the   *)
(* valuation aggregator.                                                   *)
(*                                                                         *)
(* Money is counted in thousandths of a rupee (a float price such as       *)
(* 33.005 is the integer 33005); a performance is counted in hundredths    *)
(* of a percent and a valuation in hundredths of a rupee, the two places   *)
(* the code rounds to.  A cell of a table is a record: Num(v), a number;   *)
(* NA, Python's None or pandas' NaN; Str(s), a text value.                 *)
(***************************************************************************)
EXTENDS Integers, Sequences, FiniteSets, TLC

\* ---------------------------------------------------------------- bounds
\* A source fails at most MaxFails attempts in a row before it answers.
MaxFails == 3
\* The clock runs over the days 1..MaxDay.
MaxDay == 2
\* The portfolio table holds at most MaxHoldings rows (performance runs).
MaxHoldings == 3
\* The portfolio table holds at most MaxValHoldings rows (valuation runs).
MaxValHoldings == 2

\* Names in their sort order (ORDER BY, groupby).
SymbolList == <<"X", "Y">>
OwnerList == <<"A", "B">>
PortfolioList == <<"P1", "P2">>
Range(seq) == {seq[i] : i \in 1..Len(seq)}
Rank(seq, x) == CHOOSE i \in 1..Len(seq) : seq[i] = x
Symbols == Range(SymbolList)
Owners == Range(OwnerList)
Portfolios == Range(PortfolioList)
Days == 1..MaxDay

\* ---------------------------------------------------- config.py constants
MIN_PRICE == 0
MAX_PRICE == 1000000
YAHOO_RETRY_COUNT == 3
GOOGLE_RETRY_COUNT == 2

\* ------------------------------------------------------------------ cells
Num(v) == [t |-> "num", v |-> v]
NA == [t |-> "na"]
Str(s) == [t |-> "str", s |-> s]
IsNum(c) == c.t = "num"
\* A rupee amount in thousandths.
Mills(rupees) == rupees * 1000

\* What a function returned: nothing yet, None, or a value.
Unset == [kind |-> "unset"]
RetNone == [kind |-> "None"]
Ret(x) == [kind |-> "value", items |-> x]
IsValue(r) == r.kind = "value"

VARIABLES
  enable_fallback_sources, \* FEATURE_FLAGS['enable_fallback_sources']
  validate_prices,         \* FEATURE_FLAGS['validate_prices']
  today,                   \* datetime.now().date()
  feed,                    \* what each source answers, per symbol and attempt
  portfolio,               \* the portfolio table, ORDER BY owner, stockSymbol
  stockprice,              \* the stockprice table
  latest,                  \* history: the last returned quote per (symbol, date)
  req,                     \* the symbols of the last fetch_prices call
  calls,                   \* invocations of each source in the last fetch_prices call
  prices,                  \* what the last fetch_prices call returned
  update_ok,               \* what the last update_stock_prices call returned
  perf_owner,              \* the owner of the last calculate_performance_for_owner call
  performance_data,        \* what the last performance computation returned
  portfolio_values,        \* what the last _calculate_portfolio_values call returned
  valued_prices,           \* history: the prices argument of that call
  call_order,              \* the sources in the order the last fetch_prices call invoked them
  portfoliovalue,          \* the portfoliovalue table
  upsert_arg,              \* the argument of the last _update_portfolio_values call
  upsert_fail,             \* the statement of that call that failed, 0 for none
  upsert_ok,               \* what that call returned
  pv_before,               \* history: the portfoliovalue table before that call
  last_upsert,             \* history: the value of the last committed upsert per key
  writers,                 \* concurrent runs inside _update_portfolio_values
  commit_order,            \* history: the writers in the order they committed
  run_ret,                 \* what the last calculate_portfolio_value call returned
  main_args,               \* --action and --owner of the last main() call
  main_exc,                \* the exception that left the last main() call
  run_log,                 \* history: the last run, the step of it that failed
  run_steps,               \* history: the steps the last run completed, in order
  enable_email_notifications, \* FEATURE_FLAGS['enable_email_notifications']
  notify_ret,              \* what the last send_email_notification call returned
  emails_sent              \* the messages the last run or call handed to the SMTP server

upsert_vars == <<portfoliovalue, upsert_arg, upsert_fail, upsert_ok, pv_before,
                 last_upsert>>
race_vars == <<writers, commit_order>>
run_vars == <<run_ret, main_args, main_exc, run_log, run_steps>>
notify_vars == <<enable_email_notifications, notify_ret, emails_sent>>
later_vars == <<upsert_vars, race_vars, run_vars, notify_vars>>

vars == <<enable_fallback_sources, validate_prices, today, feed, portfolio,
          stockprice, latest, req, calls, prices, update_ok, perf_owner,
          performance_data, portfolio_values, valued_prices, call_order,
          later_vars>>

\* ------------------------------------------------------------ the sources
\* A source's behaviour for one symbol: it fails (raises, or has no data) on
\* its first `fails` attempts and answers `price` on every later one; a price
\* of NA is a source that never answers.
Attempt(b, n) == IF n > b.fails THEN b.price ELSE NA

\* The prices a source may answer: below the minimum, the minimum, a valid
\* price, above the maximum.
PriceValues(valid) ==
  {Mills(MIN_PRICE) - 1, Mills(MIN_PRICE), valid, Mills(MAX_PRICE) + 1}

Behaviours(valid) ==
  {[fails |-> 0, price |-> Num(p)] : p \in PriceValues(valid)}
    \cup {[fails |-> k, price |-> Num(valid)] : k \in 1..MaxFails}
    \cup {[fails |-> 0, price |-> NA]}

\* A source that answers at once, and one that never answers.
Answers(valid) == [fails |-> 0, price |-> Num(valid)]
Silent == [fails |-> 0, price |-> NA]

\* 110.000 and 33.007 rupees.
YahooValid == Mills(110)
GoogleValid == Mills(33) + 7

Feeds == [Symbols -> [yahoo : Behaviours(YahooValid), google : Behaviours(GoogleValid)]]
\* Per symbol: a quote from yahoo, a quote from google alone, or no quote.
SimpleFeeds ==
  [Symbols -> {[yahoo |-> Answers(YahooValid), google |-> Silent],
               [yahoo |-> Silent, google |-> Answers(GoogleValid)],
               [yahoo |-> Silent, google |-> Silent]}]

\* ---------------------------------------------------------- price fetcher
\* _fetch_price_yahoo: one call of the source, no retry; (None, None) when it
\* raises or the history is empty.
FetchPriceYahoo(f, symbol) ==
  LET r == Attempt(f[symbol].yahoo, 1)
  IN  IF IsNum(r) THEN [price |-> r, source |-> "yahoo"]
      ELSE [price |-> NA, source |-> "None"]

\* _fetch_price_google: one call of the source, no retry.
FetchPriceGoogle(f, symbol) ==
  LET r == Attempt(f[symbol].google, 1)
  IN  IF IsNum(r) THEN [price |-> r, source |-> "google"]
      ELSE [price |-> NA, source |-> "None"]

\* Python's truth value of a price: None and 0.0 are false.
Truthy(c) == IsNum(c) /\ c.v # 0

\* The body of the loop of fetch_prices for one symbol: Yahoo first, Google
\* when Yahoo returned None.
FetchOne(f, symbol) ==
  LET y == FetchPriceYahoo(f, symbol)
  IN  IF ~IsNum(y.price) THEN FetchPriceGoogle(f, symbol) ELSE y

\* How often fetch_prices invokes each source for one symbol.
SourceCalls(f, symbol) ==
  [yahoo |-> 1,
   google |-> IF ~IsNum(FetchPriceYahoo(f, symbol).price) THEN 1 ELSE 0]

NoCalls == [yahoo |-> 0, google |-> 0]

\* Both sources for every symbol, whatever yahoo returned.
SourceOrderBoth(f, symbol) == <<"yahoo", "google">>

\* The sources in the order the loop body of fetch_prices invokes them for
\* one symbol.
SourceOrder(f, symbol) ==
  IF ~IsNum(FetchPriceYahoo(f, symbol).price)
  THEN <<"yahoo", "google">> ELSE <<"yahoo">>

\* The dictionary fetch_prices builds: an entry for every symbol with a
\* truthy price.
PricesDict(f, symbols) ==
  LET got == {s \in symbols : Truthy(FetchOne(f, s).price)}
  IN  [s \in got |-> [price |-> FetchOne(f, s).price.v,
                      source |-> FetchOne(f, s).source]]

\* The unique key of the stockprice table.
PriceKey(row) == <<row.stockSymbol, row.priceDate>>

\* The statement without the commit: the connection closes and the rows are
\* rolled back.
UncommittedPricesInDb(table, d, date) == table

\* INSERT in the place of REPLACE: the rows of the same key stay.
InsertPricesInDb(table, d, date) ==
  table \cup {[stockSymbol |-> s, price |-> d[s].price,
               priceDate |-> date, source |-> d[s].source] : s \in DOMAIN d}

\* _update_prices_in_db: REPLACE INTO stockprice, one row per entry of the
\* dictionary, dated today, in one executemany and one commit.
UpdatePricesInDb(table, d, date) ==
  LET rows == {[stockSymbol |-> s, price |-> d[s].price,
                priceDate |-> date, source |-> d[s].source] : s \in DOMAIN d}
  IN  {r \in table : \A n \in rows : PriceKey(n) # PriceKey(r)} \cup rows

\* fetch_prices(symbols): the returned value and the table after the call.
\* A failing write raises in _update_prices_in_db, nothing is committed and
\* fetch_prices returns None.
FetchResult(f, symbols, table, date, db_ok) ==
  LET d == PricesDict(f, symbols)
  IN  IF DOMAIN d = {} THEN [ret |-> Ret(d), table |-> table]
      ELSE IF db_ok THEN [ret |-> Ret(d), table |-> UpdatePricesInDb(table, d, date)]
      ELSE [ret |-> RetNone, table |-> table]

\* History: the quote of the latest fetch cycle that returned the symbol on
\* the date; << >> when there is none.
Record(h, ret, date) ==
  IF IsValue(ret)
  THEN [k \in Symbols \X Days |->
          IF k[1] \in DOMAIN ret.items /\ k[2] = date
          THEN <<ret.items[k[1]]>> ELSE h[k]]
  ELSE h

FetchPrices ==
  \E symbols \in SUBSET Symbols, db_ok \in BOOLEAN :
    LET res == FetchResult(feed, symbols, stockprice, today, db_ok)
    IN  /\ req' = symbols
        /\ calls' = [s \in Symbols |->
                       IF s \in symbols THEN SourceCalls(feed, s) ELSE NoCalls]
        /\ call_order' = [s \in Symbols |->
                            IF s \in symbols THEN SourceOrder(feed, s) ELSE << >>]
        /\ prices' = res.ret
        /\ stockprice' = res.table
        /\ latest' = Record(latest, res.ret, today)
        /\ UNCHANGED <<enable_fallback_sources, validate_prices, today, feed,
                       portfolio, update_ok, perf_owner, performance_data,
                       portfolio_values, valued_prices, later_vars>>

\* PortfolioFetcher.update_stock_prices(prices_dict), called with what
\* fetch_prices returned: False for None or an empty dictionary; an entry
\* without 'priceDate' raises KeyError before any statement runs, which is
\* caught and gives False.
UpsertPrices(table, d) ==
  LET rows == {[stockSymbol |-> s, price |-> Str(d[s].price),
                priceDate |-> d[s].priceDate, source |-> d[s].source] : s \in DOMAIN d}
  IN  {r \in table : \A n \in rows : PriceKey(n) # PriceKey(r)} \cup rows

UpdateStockPricesResult(ret, table) ==
  IF ~IsValue(ret) \/ DOMAIN ret.items = {} THEN [ok |-> FALSE, table |-> table]
  ELSE IF \E s \in DOMAIN ret.items : "priceDate" \notin DOMAIN ret.items[s]
  THEN [ok |-> FALSE, table |-> table]
  ELSE [ok |-> TRUE, table |-> UpsertPrices(table, ret.items)]

UpdateStockPrices ==
  /\ prices # Unset
  /\ LET res == UpdateStockPricesResult(prices, stockprice)
     IN  /\ update_ok' = (IF res.ok THEN "True" ELSE "False")
         /\ stockprice' = res.table
  /\ UNCHANGED <<enable_fallback_sources, validate_prices, today, feed,
                 portfolio, latest, req, calls, prices, perf_owner,
                 performance_data, portfolio_values, valued_prices, call_order, later_vars>>

\* ------------------------------------------------- the portfolio table
\* The text of a numeric column that parses as a number.
ParseNumber(s) == IF s = "64" THEN Num(Mills(64)) ELSE NA

\* pd.to_numeric(column, errors='coerce'): a number stays, a numeric text is
\* parsed, anything else becomes NaN.
ToNumeric(c) ==
  IF c.t = "num" THEN c ELSE IF c.t = "str" THEN ParseNumber(c.s) ELSE NA

\* .fillna(0)
FillNa0(c) == IF IsNum(c) THEN c ELSE Num(0)

\* ORDER BY owner, stockSymbol
RowOrdered(a, b) ==
  \/ Rank(OwnerList, a.owner) < Rank(OwnerList, b.owner)
  \/ /\ a.owner = b.owner
     /\ Rank(SymbolList, a.stockSymbol) <= Rank(SymbolList, b.stockSymbol)

Tables(rows, n) ==
  {tb \in UNION {[1..k -> rows] : k \in 0..n} :
     \A i \in 1..(Len(tb) - 1) : RowOrdered(tb[i], tb[i + 1])}

\* Holdings for the performance runs: the purchase price is a number, a
\* numeric text or a text that is no number.
PerfRows ==
  [owner : Owners, portfolioName : {"P1"}, stockSymbol : Symbols,
   purchasePrice : {Num(Mills(100)), Str("64"), Str("n/a")},
   purchaseQty : {Num(10)}, additionalQty : {NA}]

\* Holdings for the valuation runs: owner A has two portfolios and shares the
\* name of one with owner B; with and without an additional quantity.
ValRows ==
  {h \in [owner : Owners, portfolioName : Portfolios, stockSymbol : Symbols,
          purchasePrice : {Num(Mills(100))},
          purchaseQty : {Num(10)}, additionalQty : {NA, Num(1)}] :
     h.owner = OwnerList[1] \/ h.portfolioName = PortfolioList[1]}

\* PortfolioFetcher.get_portfolio_data: SELECT * FROM portfolio ORDER BY
\* owner, stockSymbol.
GetPortfolioData == portfolio

\* ------------------------------------------------- performance calculator
\* Rounding n/d (d > 0) to the nearest integer, halves to the even one: what
\* round(2) does to a value counted in hundredths.
RoundHalfEven(n, d) ==
  LET q == n \div d
      r == n - q * d
  IN  IF 2 * r < d THEN q
      ELSE IF 2 * r > d THEN q + 1
      ELSE IF q % 2 = 0 THEN q ELSE q + 1

\* Rounding toward minus infinity instead.
PerformanceFloor(price, purchasePrice) ==
  ((price - purchasePrice) * 10000) \div purchasePrice

\* ((price - purchasePrice) / purchasePrice * 100).round(2), in hundredths of
\* a percent.
Performance(price, purchasePrice) ==
  RoundHalfEven((price - purchasePrice) * 10000, purchasePrice)

\* The numeric conversions and the left merge of _calculate_performance, and
\* the performance column: a number where price and purchasePrice are both
\* not null, None elsewhere.
MergedRow(h, d) ==
  LET pp == ToNumeric(h.purchasePrice)
      price == IF h.stockSymbol \in DOMAIN d THEN Num(d[h.stockSymbol].price) ELSE NA
  IN  [owner |-> h.owner, portfolioName |-> h.portfolioName,
       stockSymbol |-> h.stockSymbol,
       purchasePrice |-> pp,
       purchaseQty |-> ToNumeric(h.purchaseQty),
       additionalQty |-> FillNa0(ToNumeric(h.additionalQty)),
       price |-> price,
       performance |-> IF IsNum(price) /\ IsNum(pp)
                       THEN Num(Performance(price.v, pp.v)) ELSE NA]

\* a sorts strictly before b: descending, or ascending, with the nulls at the
\* end or at the start.
SortsBefore(a, b, ascending, na_last) ==
  IF IsNum(a) /\ IsNum(b) THEN (IF ascending THEN a.v < b.v ELSE a.v > b.v)
  ELSE IF na_last THEN IsNum(a) /\ ~IsNum(b)
  ELSE ~IsNum(a) /\ IsNum(b)

\* sort_values(by='performance'): an insertion sort, as numpy sorts a short
\* column; rows with equal keys keep their order.
RECURSIVE SortRows(_, _, _)
SortRows(rows, ascending, na_last) ==
  IF Len(rows) = 0 THEN << >>
  ELSE LET n == Len(rows)
           r == rows[n]
           done == SortRows(SubSeq(rows, 1, n - 1), ascending, na_last)
           pos == Cardinality({i \in 1..(n - 1) :
                    ~SortsBefore(r.performance, done[i].performance, ascending, na_last)})
       IN  SubSeq(done, 1, pos) \o <<r>> \o SubSeq(done, pos + 1, n - 1)

\* The same sort with na_position='first'.
SortByPerformanceNaFirst(rows) == SortRows(rows, FALSE, FALSE)

\* sort_values(by='performance', ascending=False, na_position='last')
SortByPerformance(rows) == SortRows(rows, FALSE, TRUE)

\* _calculate_performance(portfolio_data, prices_df), prices_df holding the
\* prices of the dictionary d.
CalculatePerformanceOf(data, d) ==
  SortByPerformance([i \in 1..Len(data) |-> MergedRow(data[i], d)])

\* _print_performance_summary formats every row's performance with
\* ':>10.2f', which raises TypeError for None.
PrintRaises(rows) == \E i \in 1..Len(rows) : ~IsNum(rows[i].performance)

\* portfolio_data[portfolio_data['owner'] == owner]
HoldingsOf(data, owner) == SelectSeq(data, LAMBDA h : h.owner = owner)

\* calculate_performance_for_owner(owner): _fetch_data (the table, the
\* owner's rows, fetch_prices for their symbols), _calculate_performance and
\* _print_performance_summary; any exception gives None.
CalculatePerformanceForOwner ==
  \E owner \in Owners, db_ok \in BOOLEAN :
    LET mine == HoldingsOf(GetPortfolioData, owner)
        symbols == {mine[i].stockSymbol : i \in 1..Len(mine)}
        res == FetchResult(feed, symbols, stockprice, today, db_ok)
        rows == CalculatePerformanceOf(mine, res.ret.items)
    IN  /\ perf_owner' = owner
        /\ IF Len(mine) = 0
           THEN /\ performance_data' = RetNone
                /\ UNCHANGED <<req, calls, call_order, prices, stockprice, latest>>
           ELSE /\ req' = symbols
                /\ calls' = [s \in Symbols |->
                               IF s \in symbols THEN SourceCalls(feed, s) ELSE NoCalls]
                /\ call_order' = [s \in Symbols |->
                                    IF s \in symbols THEN SourceOrder(feed, s)
                                    ELSE << >>]
                /\ prices' = res.ret
                /\ stockprice' = res.table
                /\ latest' = Record(latest, res.ret, today)
                /\ performance_data' =
                     IF ~IsValue(res.ret) \/ DOMAIN res.ret.items = {} THEN RetNone
                     ELSE IF PrintRaises(rows) THEN RetNone
                     ELSE Ret(rows)
        /\ UNCHANGED <<enable_fallback_sources, validate_prices, today, feed,
                       portfolio, update_ok, portfolio_values, valued_prices, later_vars>>

\* _calculate_performance applied to the whole table and the fetched prices.
CalculatePerformance ==
  /\ IsValue(prices) /\ DOMAIN prices.items # {}
  /\ perf_owner' = "direct"
  /\ performance_data' = Ret(CalculatePerformanceOf(GetPortfolioData, prices.items))
  /\ UNCHANGED <<enable_fallback_sources, validate_prices, today, feed,
                 portfolio, stockprice, latest, req, calls, prices, update_ok,
                 portfolio_values, valued_prices, call_order, later_vars>>

\* ---------------------------------------------------- valuation aggregator
\* calculate_portfolio_value, the conversion of the quantity columns:
\* to_numeric on purchaseQty, to_numeric and fillna(0) on additionalQty.
CoerceQuantities(data) ==
  [i \in 1..Len(data) |->
     [data[i] EXCEPT !.purchaseQty = ToNumeric(@),
                     !.additionalQty = FillNa0(ToNumeric(@))]]

\* The (portfolioName, owner) pairs in groupby's order.
AllGroupKeys ==
  [n \in 1..(Len(PortfolioList) * Len(OwnerList)) |->
     <<PortfolioList[((n - 1) \div Len(OwnerList)) + 1],
       OwnerList[((n - 1) % Len(OwnerList)) + 1]>>]

\* groupby(['portfolioName', 'owner']): the keys that occur, sorted.
GroupKeys(data) ==
  SelectSeq(AllGroupKeys,
            LAMBDA k : \E i \in 1..Len(data) :
                         data[i].portfolioName = k[1] /\ data[i].owner = k[2])

GroupRows(data, k) ==
  SelectSeq(data, LAMBDA h : h.portfolioName = k[1] /\ h.owner = k[2])

\* The value of a holding without its additional quantity.
PositionValuePurchaseOnly(h, d) ==
  IF h.stockSymbol \in DOMAIN d
  THEN d[h.stockSymbol].price * h.purchaseQty.v
  ELSE 0

\* The inner loop's term: price * (purchaseQty + additionalQty) for a symbol
\* with a quote, nothing for a symbol without.
PositionValue(h, d) ==
  IF h.stockSymbol \in DOMAIN d
  THEN d[h.stockSymbol].price * (h.purchaseQty.v + h.additionalQty.v)
  ELSE 0

RECURSIVE TotalValue(_, _)
TotalValue(rows, d) ==
  IF Len(rows) = 0 THEN 0
  ELSE PositionValue(Head(rows), d) + TotalValue(Tail(rows), d)

\* _calculate_portfolio_values(portfolio_data, prices): one entry per group,
\* its value round(total_value, 2), in hundredths of a rupee.
CalculatePortfolioValuesOf(data, d, date) ==
  LET keys == GroupKeys(data)
  IN  [n \in 1..Len(keys) |->
         [portfolioName |-> keys[n][1],
          owner |-> keys[n][2],
          value |-> RoundHalfEven(TotalValue(GroupRows(data, keys[n]), d), 10),
          valuationDate |-> date]]

\* _calculate_portfolio_values applied to the converted table and the
\* fetched prices.
CalculatePortfolioValues ==
  /\ IsValue(prices)
  /\ portfolio_values' =
       Ret(CalculatePortfolioValuesOf(CoerceQuantities(GetPortfolioData),
                                      prices.items, today))
  /\ valued_prices' = prices
  /\ UNCHANGED <<enable_fallback_sources, validate_prices, today, feed,
                 portfolio, stockprice, latest, req, calls, prices, update_ok,
                 perf_owner, performance_data, call_order, later_vars>>

\* ------------------------------------------------ the portfoliovalue table
\* The key the lookup selects by.
PvKey(e) == <<e.portfolioName, e.owner, e.valuationDate>>

PvKeys == Portfolios \X Owners \X Days

Max(S) == CHOOSE x \in S : \A y \in S : y <= x
Min(S) == CHOOSE x \in S : \A y \in S : x <= y

\* AUTO_INCREMENT of the id column.
NextId(table) == IF table = {} THEN 1 ELSE Max({r.id : r \in table}) + 1

\* SELECT id ... WHERE portfolioName, owner, valuationDate; fetchone(): the id
\* of the first matching row, 0 for no row.
LookupId(table, e) ==
  LET hit == {r.id : r \in {x \in table : PvKey(x) = PvKey(e)}}
  IN  IF hit = {} THEN 0 ELSE Min(hit)

\* UPDATE portfoliovalue SET value WHERE id.
UpdateRow(table, id, value) ==
  {IF r.id = id THEN [r EXCEPT !.value = value] ELSE r : r \in table}

\* INSERT INTO portfoliovalue (portfolioName, owner, value, valuationDate).
InsertRow(table, e) ==
  table \cup {[id |-> NextId(table), portfolioName |-> e.portfolioName,
               owner |-> e.owner, value |-> e.value,
               valuationDate |-> e.valuationDate]}

\* An insert whatever the lookup found.
InsertOne(table, e) == InsertRow(table, e)

\* One pass of the loop body: the lookup, then the update of the row found or
\* the insert of a new one.
UpsertOne(table, e) ==
  LET id == LookupId(table, e)
  IN  IF id # 0 THEN UpdateRow(table, id, e.value) ELSE InsertRow(table, e)

\* The loop over portfolio_values, on one connection.
RECURSIVE UpsertAll(_, _)
UpsertAll(table, batch) ==
  IF Len(batch) = 0 THEN table
  ELSE UpsertAll(UpsertOne(table, Head(batch)), Tail(batch))

\* The statements of one call: two per entry (the lookup, the update or
\* insert) and the commit.
Statements(batch) == 2 * Len(batch) + 1

\* Every statement commits on its own: the writes before the failing
\* statement stay.
UpdatePortfolioValuesAutocommit(table, batch, fail) ==
  IF fail = 0
  THEN [ret |-> "True", table |-> UpsertAll(table, batch)]
  ELSE [ret |-> "False",
        table |-> UpsertAll(table, SubSeq(batch, 1, (fail - 1) \div 2))]

\* _update_portfolio_values(portfolio_values) with statement `fail` raising
\* (0: none does): the connection is closed without a commit and the
\* transaction is rolled back; otherwise commit() makes all the writes
\* visible at once.
UpdatePortfolioValuesResult(table, batch, fail) ==
  IF fail = 0
  THEN [ret |-> "True", table |-> UpsertAll(table, batch)]
  ELSE [ret |-> "False", table |-> table]

\* The value committed last per key.
RECURSIVE Committed(_, _)
Committed(h, batch) ==
  IF Len(batch) = 0 THEN h
  ELSE Committed([h EXCEPT ![PvKey(Head(batch))] = Ret(Head(batch).value)],
                 Tail(batch))

\* Valuations in hundredths of a rupee.
Rupees(r) == r * 100
UpsertValues == {Rupees(363), Rupees(1100)}
UpsertGroups == <<AllGroupKeys[1], AllGroupKeys[2]>>

\* What _calculate_portfolio_values can hand over on `date`: one entry per
\* group, in groupby's order, for some of the groups.
Batches(date) ==
  LET Entry(n, v) == [portfolioName |-> UpsertGroups[n][1],
                      owner |-> UpsertGroups[n][2],
                      value |-> v, valuationDate |-> date]
  IN  {<<Entry(n, v)>> : n \in 1..Len(UpsertGroups), v \in UpsertValues}
        \cup {<<Entry(1, v), Entry(2, w)>> : v \in UpsertValues, w \in UpsertValues}

\* The effect of one _update_portfolio_values(batch) call.
DoUpdatePortfolioValues(batch, fail) ==
  LET res == UpdatePortfolioValuesResult(portfoliovalue, batch, fail)
  IN  /\ portfoliovalue' = res.table
      /\ upsert_arg' = batch
      /\ upsert_fail' = fail
      /\ upsert_ok' = res.ret
      /\ pv_before' = portfoliovalue
      /\ last_upsert' = IF res.ret = "True"
                        THEN Committed(last_upsert, batch) ELSE last_upsert

UpdatePortfolioValues ==
  \E batch \in Batches(today) :
    \E fail \in 0..Statements(batch) :
      /\ DoUpdatePortfolioValues(batch, fail)
      /\ UNCHANGED <<enable_fallback_sources, validate_prices, today, feed,
                     portfolio, stockprice, latest, req, calls, prices,
                     update_ok, perf_owner, performance_data,
                     portfolio_values, valued_prices, call_order,
                     race_vars, run_vars, notify_vars>>

\* ------------------------------------------- overlapping valuation upserts
\* Two runs inside _update_portfolio_values at once, each with one entry for
\* the same key. A run's statements see what has been committed; its own
\* write becomes visible to the other run at its commit.
MaxCalls == 2

Writers == 1..2

RaceEntry(v) ==
  [portfolioName |-> UpsertGroups[1][1], owner |-> UpsertGroups[1][2],
   value |-> v, valuationDate |-> today]

AtRest(w) == writers[w].pc \in {"idle", "done"}

CallsOf(w) == IF writers[w].pc = "idle" THEN 0 ELSE writers[w].n

RaceFrame ==
  UNCHANGED <<enable_fallback_sources, validate_prices, today, feed,
              portfolio, stockprice, latest, req, calls, prices, update_ok,
              perf_owner, performance_data, portfolio_values, valued_prices,
              call_order, upsert_arg, upsert_fail, upsert_ok, pv_before,
              last_upsert, run_vars, notify_vars>>

\* A run enters _update_portfolio_values and opens its connection.
Enter(w) ==
  /\ AtRest(w)
  /\ CallsOf(w) < MaxCalls
  /\ \E v \in UpsertValues :
       writers' = [writers EXCEPT
                     ![w] = [pc |-> "lookup", entry |-> RaceEntry(v), id |-> 0,
                             n |-> CallsOf(w) + 1]]
  /\ UNCHANGED <<portfoliovalue, commit_order>>
  /\ RaceFrame

\* The SELECT id of the run, on the committed rows.
Lookup(w) ==
  /\ writers[w].pc = "lookup"
  /\ writers' = [writers EXCEPT
                   ![w].pc = "write",
                   ![w].id = LookupId(portfoliovalue, writers[w].entry)]
  /\ UNCHANGED <<portfoliovalue, commit_order>>
  /\ RaceFrame

\* The UPDATE by id or the INSERT of the run, not yet committed. An UPDATE
\* waits while the other run holds the row with an uncommitted UPDATE.
Write(w) ==
  /\ writers[w].pc = "write"
  /\ writers[w].id # 0 =>
       \A u \in Writers \ {w} :
         ~(writers[u].pc = "commit" /\ writers[u].id = writers[w].id)
  /\ writers' = [writers EXCEPT ![w].pc = "commit"]
  /\ UNCHANGED <<portfoliovalue, commit_order>>
  /\ RaceFrame

\* conn.commit() of the run.
Commit(w) ==
  /\ writers[w].pc = "commit"
  /\ portfoliovalue' =
       IF writers[w].id # 0
       THEN UpdateRow(portfoliovalue, writers[w].id, writers[w].entry.value)
       ELSE InsertRow(portfoliovalue, writers[w].entry)
  /\ commit_order' = Append(commit_order, writers[w].entry.value)
  /\ writers' = [writers EXCEPT ![w].pc = "done"]
  /\ RaceFrame

\* ------------------------------------------------------ notification sender
\* What the SMTP server does with a session: accepts the message, refuses
\* the connection, refuses the login, refuses the message.
SmtpOutcomes == {"ok", "connect", "auth", "send"}

\* _format_table_rows: `{row['performance']:.2f}` raises on None.
FormatRaises(rows) == \E i \in 1..Len(rows) : ~IsNum(rows[i].performance)

\* send_email_notification(performance_data): the returned value and the
\* number of messages handed to the server. password: EMAIL_CONFIG's
\* sender_password is set. Every path ends in a bare return or falls off the
\* end of the method; every exception is caught inside it.
SendEmailNotificationResult(flag, data, password, smtp) ==
  IF ~flag THEN [ret |-> "None", sent |-> 0]
  ELSE IF ~IsValue(data) \/ Len(data.items) = 0 THEN [ret |-> "None", sent |-> 0]
  ELSE IF FormatRaises(data.items) THEN [ret |-> "None", sent |-> 0]
  ELSE IF smtp = "connect" THEN [ret |-> "None", sent |-> 0]
  ELSE IF ~password THEN [ret |-> "None", sent |-> 0]
  ELSE IF smtp \in {"auth", "send"} THEN [ret |-> "None", sent |-> 0]
  ELSE [ret |-> "None", sent |-> 1]

\* send_email_notification applied to what the performance calculator
\* returned last.
SendEmailNotification ==
  /\ performance_data # Unset
  /\ \E password \in BOOLEAN, smtp \in SmtpOutcomes :
       LET res == SendEmailNotificationResult(enable_email_notifications,
                                              performance_data, password, smtp)
       IN  /\ notify_ret' = res.ret
           /\ emails_sent' = res.sent
  /\ UNCHANGED <<enable_fallback_sources, validate_prices, today, feed,
                 portfolio, stockprice, latest, req, calls, prices, update_ok,
                 perf_owner, performance_data, portfolio_values,
                 valued_prices, call_order, upsert_vars, race_vars, run_vars,
                 enable_email_notifications>>

\* ------------------------------------------------------------------ the runs
\* The methods class PerformanceCalculator defines.
PerformanceCalculatorMethods ==
  {"calculate_performance_for_owner", "_fetch_data", "_calculate_performance",
   "_print_performance_summary", "_print_summary_statistics"}

\* Every attribute lookup on the calculator succeeds.
HasMethodAlways(name) == TRUE

\* self.performance_calculator.<name> resolves; otherwise AttributeError.
HasMethod(name) == name \in PerformanceCalculatorMethods

\* def calculate_portfolio_value(self): no parameter besides self.
CalculatePortfolioValueParams == << >>

\* A call with the wrong number of positional arguments raises TypeError.
CallRaises(params, args) == Len(params) # Len(args)

SymbolsOf(data) == {data[i].stockSymbol : i \in 1..Len(data)}

\* What a fetch_prices(symbols) call inside a run leaves behind.
FetchEffect(symbols, res) ==
  /\ req' = symbols
  /\ calls' = [s \in Symbols |->
                 IF s \in symbols THEN SourceCalls(feed, s) ELSE NoCalls]
  /\ call_order' = [s \in Symbols |->
                      IF s \in symbols THEN SourceOrder(feed, s) ELSE << >>]
  /\ prices' = res.ret
  /\ stockprice' = res.table
  /\ latest' = Record(latest, res.ret, today)

NoFetch == UNCHANGED <<req, calls, call_order, prices, stockprice, latest>>

Log(run, step, write) == [run |-> run, failed |-> step, write_failed |-> write]

\* calculate_portfolio_value(): the holdings, fetch_prices for their symbols,
\* the call of calculate_performance on the calculator, and behind it the
\* summary, the valuations, their upsert (its result is not read) and the
\* notification. Every exception is caught and gives False.
CalculatePortfolioValue ==
  LET data == CoerceQuantities(GetPortfolioData)
      symbols == SymbolsOf(data)
      Stop(step, write, done) ==
        /\ run_ret' = "False"
        /\ run_log' = Log("valuation", step, write)
        /\ run_steps' = done
        /\ UNCHANGED <<upsert_vars, notify_ret, emails_sent>>
  IN  /\ IF Len(data) = 0
         THEN NoFetch /\ Stop("no_holdings", FALSE, << >>)
         ELSE \E db_ok \in BOOLEAN :
                LET res == FetchResult(feed, symbols, stockprice, today, db_ok)
                    rows == SortByPerformance(
                              CalculatePerformanceOf(data, res.ret.items))
                    values == CalculatePortfolioValuesOf(data, res.ret.items,
                                                         today)
                IN  /\ FetchEffect(symbols, res)
                    /\ IF ~IsValue(res.ret) THEN Stop("fetch_write", TRUE, << >>)
                       ELSE IF DOMAIN res.ret.items = {}
                       THEN Stop("no_prices", FALSE, <<"fetch">>)
                       ELSE IF ~HasMethod("calculate_performance")
                       THEN Stop("performance", FALSE, <<"fetch">>)
                       ELSE IF PrintRaises(rows)
                       THEN Stop("summary", FALSE, <<"fetch", "performance">>)
                       ELSE \E fail \in 0..1, password \in BOOLEAN,
                               smtp \in SmtpOutcomes :
                              LET mail == SendEmailNotificationResult(
                                            enable_email_notifications,
                                            Ret(rows), password, smtp)
                              IN  /\ DoUpdatePortfolioValues(values, fail)
                                  /\ notify_ret' = mail.ret
                                  /\ emails_sent' = mail.sent
                                  /\ run_ret' = "True"
                                  /\ run_log' =
                                       Log("valuation",
                                           IF fail # 0 THEN "upsert"
                                           ELSE IF enable_email_notifications
                                                   /\ mail.sent = 0
                                           THEN "notify" ELSE "none",
                                           fail # 0)
                                  /\ run_steps' =
                                       <<"fetch", "performance">>
                                         \o (IF fail = 0 THEN <<"valuation">>
                                             ELSE << >>)
                                         \o (IF mail.sent = 1 THEN <<"notify">>
                                             ELSE << >>)
      /\ UNCHANGED <<enable_fallback_sources, validate_prices, today, feed,
                     portfolio, update_ok, perf_owner, performance_data,
                     portfolio_values, valued_prices, race_vars, main_args,
                     main_exc, enable_email_notifications>>

\* The values of --action.
Actions == {"value", "performance", "both"}

\* main(): for 'value' and 'both' it calls calculate_portfolio_value with
\* args.owner, nothing catches what that raises; for 'performance' it calls
\* calculate_performance_for_owner and, for a result that is not None,
\* send_email_notification.
Main ==
  \E action \in Actions, owner \in Owners :
    LET mine == HoldingsOf(GetPortfolioData, owner)
        symbols == SymbolsOf(mine)
        Skip(step, write, done) ==
          /\ performance_data' = RetNone
          /\ run_log' = Log("main", step, write)
          /\ run_steps' = done
          /\ notify_ret' = "unset"
          /\ emails_sent' = 0
    IN  /\ main_args' = [action |-> action, owner |-> owner]
        /\ IF action \in {"value", "both"}
              /\ CallRaises(CalculatePortfolioValueParams, <<owner>>)
           THEN /\ main_exc' = "TypeError"
                /\ performance_data' = Unset
                /\ run_log' = Log("main", "call", FALSE)
                /\ run_steps' = << >>
                /\ notify_ret' = "unset"
                /\ emails_sent' = 0
                /\ NoFetch
                /\ UNCHANGED perf_owner
           ELSE /\ main_exc' = "None"
                /\ perf_owner' = owner
                /\ IF Len(mine) = 0
                   THEN NoFetch /\ Skip("no_holdings", FALSE, << >>)
                   ELSE \E db_ok \in BOOLEAN :
                          LET res == FetchResult(feed, symbols, stockprice,
                                                 today, db_ok)
                              rows == CalculatePerformanceOf(mine, res.ret.items)
                          IN  /\ FetchEffect(symbols, res)
                              /\ IF ~IsValue(res.ret)
                                 THEN Skip("fetch_write", TRUE, << >>)
                                 ELSE IF DOMAIN res.ret.items = {}
                                 THEN Skip("no_prices", FALSE, <<"fetch">>)
                                 ELSE IF PrintRaises(rows)
                                 THEN Skip("summary", FALSE, <<"fetch", "performance">>)
                                 ELSE \E password \in BOOLEAN,
                                         smtp \in SmtpOutcomes :
                                        LET mail == SendEmailNotificationResult(
                                                      enable_email_notifications,
                                                      Ret(rows), password, smtp)
                                        IN  /\ performance_data' = Ret(rows)
                                            /\ notify_ret' = mail.ret
                                            /\ emails_sent' = mail.sent
                                            /\ run_log' =
                                                 Log("main",
                                                     IF enable_email_notifications
                                                        /\ mail.sent = 0
                                                     THEN "notify" ELSE "none",
                                                     FALSE)
                                            /\ run_steps' =
                                                 <<"fetch", "performance">>
                                                   \o (IF mail.sent = 1
                                                       THEN <<"notify">>
                                                       ELSE << >>)
        /\ UNCHANGED <<enable_fallback_sources, validate_prices, today, feed,
                       portfolio, update_ok, portfolio_values, valued_prices,
                       upsert_vars, race_vars, run_ret,
                       enable_email_notifications>>

\* PortfolioFetcher.get_current_prices: per symbol the stored quote of its
\* latest priceDate.
GetCurrentPrices(table) ==
  [s \in {r.stockSymbol : r \in table} |->
     LET r == CHOOSE x \in table :
                /\ x.stockSymbol = s
                /\ \A q \in table : q.stockSymbol = s => q.priceDate <= x.priceDate
     IN  [price |-> r.price, source |-> r.source]]

\* The display block of PortfolioManager.run reads the price_age_days column
\* of a non-empty table; a table without the column raises KeyError.
DisplayRaises(rows) ==
  Len(rows) > 0 /\ \E i \in 1..Len(rows) : "price_age_days" \notin DOMAIN rows[i]

\* PortfolioManager.run(): the holdings and their symbols, fetch_prices,
\* update_stock_prices (its result is not read), the call of
\* calculate_performance on the calculator, and behind it the display and,
\* with the notifications on, the notification. Every exception is caught
\* and printed; the method returns nothing.
Run ==
  LET data == GetPortfolioData
      symbols == SymbolsOf(data)
  IN  /\ \E db_ok \in BOOLEAN :
           LET res == FetchResult(feed, symbols, stockprice, today, db_ok)
               upd == UpdateStockPricesResult(res.ret, res.table)
               rows == CalculatePerformanceOf(data, GetCurrentPrices(upd.table))
               fetched == IF IsValue(res.ret) THEN <<"fetch">> ELSE << >>
           IN  /\ req' = symbols
               /\ calls' = [s \in Symbols |->
                              IF s \in symbols THEN SourceCalls(feed, s)
                              ELSE NoCalls]
               /\ call_order' = [s \in Symbols |->
                                   IF s \in symbols THEN SourceOrder(feed, s)
                                   ELSE << >>]
               /\ prices' = res.ret
               /\ latest' = Record(latest, res.ret, today)
               /\ update_ok' = (IF upd.ok THEN "True" ELSE "False")
               /\ stockprice' = upd.table
               /\ IF ~HasMethod("calculate_performance")
                  THEN /\ run_log' = Log("manager", "performance", ~IsValue(res.ret))
                       /\ run_steps' = fetched
                       /\ UNCHANGED <<notify_ret, emails_sent>>
                  ELSE IF DisplayRaises(rows)
                  THEN /\ run_log' = Log("manager", "display", ~IsValue(res.ret))
                       /\ run_steps' = fetched \o <<"performance">>
                       /\ UNCHANGED <<notify_ret, emails_sent>>
                  ELSE IF ~enable_email_notifications
                  THEN /\ run_log' = Log("manager", "none", ~IsValue(res.ret))
                       /\ run_steps' = fetched \o <<"performance">>
                       /\ UNCHANGED <<notify_ret, emails_sent>>
                  ELSE \E password \in BOOLEAN, smtp \in SmtpOutcomes :
                         LET mail == SendEmailNotificationResult(
                                       enable_email_notifications, Ret(rows),
                                       password, smtp)
                         IN  /\ notify_ret' = mail.ret
                             /\ emails_sent' = mail.sent
                             /\ run_log' = Log("manager",
                                               IF mail.sent = 0 THEN "notify"
                                               ELSE "none",
                                               ~IsValue(res.ret))
                             /\ run_steps' =
                                  fetched \o <<"performance">>
                                    \o (IF mail.sent = 1 THEN <<"notify">>
                                        ELSE << >>)
      /\ UNCHANGED <<enable_fallback_sources, validate_prices, today, feed,
                     portfolio, perf_owner, performance_data, portfolio_values,
                     valued_prices, upsert_vars, race_vars, run_ret, main_args,
                     main_exc, enable_email_notifications>>

\* ------------------------------------------------------------ environment
\* The sources change what they answer.
SourcesChange ==
  /\ feed' \in SimpleFeeds
  /\ feed' # feed
  /\ UNCHANGED <<enable_fallback_sources, validate_prices, today, portfolio,
                 stockprice, latest, req, calls, prices, update_ok, perf_owner,
                 performance_data, portfolio_values, valued_prices, call_order, later_vars>>

\* Midnight.
Tick ==
  /\ today < MaxDay
  /\ today' = today + 1
  /\ UNCHANGED <<enable_fallback_sources, validate_prices, feed, portfolio,
                 stockprice, latest, req, calls, prices, update_ok, perf_owner,
                 performance_data, portfolio_values, valued_prices, call_order, later_vars>>

\* --------------------------------------------------------- specifications
\* No writer is inside _update_portfolio_values.
Idle == [pc |-> "idle"]

\* No run yet.
NoRun == [run |-> "none", failed |-> "none", write_failed |-> FALSE]

InitCommon(feeds, tables, flags, mail, inside) ==
  /\ enable_fallback_sources \in flags
  /\ validate_prices \in flags
  /\ today = 1
  /\ feed \in feeds
  /\ portfolio \in tables
  /\ stockprice = {}
  /\ latest = [k \in Symbols \X Days |-> << >>]
  /\ req = {}
  /\ calls = [s \in Symbols |-> NoCalls]
  /\ call_order = [s \in Symbols |-> << >>]
  /\ prices = Unset
  /\ update_ok = "unset"
  /\ perf_owner = "unset"
  /\ performance_data = Unset
  /\ portfolio_values = Unset
  /\ valued_prices = Unset
  /\ portfoliovalue = {}
  /\ upsert_arg = << >>
  /\ upsert_fail = 0
  /\ upsert_ok = "unset"
  /\ pv_before = {}
  /\ last_upsert = [k \in Portfolios \X Owners \X Days |-> Unset]
  /\ writers \in inside
  /\ commit_order = << >>
  /\ run_ret = "unset"
  /\ main_args = [action |-> "unset", owner |-> "unset"]
  /\ main_exc = "unset"
  /\ run_log = NoRun
  /\ run_steps = << >>
  /\ enable_email_notifications \in mail
  /\ notify_ret = "unset"
  /\ emails_sent = 0

\* The configuration as shipped has the notifications off.
InitWith(feeds, tables, flags) ==
  InitCommon(feeds, tables, flags, {FALSE}, {[w \in 1..2 |-> Idle]})

\* Fetch cycles over the days, with the configuration as shipped.
Init == InitWith(SimpleFeeds, {<< >>}, {TRUE})
Next == FetchPrices \/ UpdateStockPrices \/ SourcesChange \/ Tick
Spec == Init /\ [][Next]_vars

\* fetch_prices under every configuration and every behaviour of the sources.
InitFetch == InitWith(Feeds, {<< >>}, BOOLEAN)
NextFetch == FetchPrices
SpecFetch == InitFetch /\ [][NextFetch]_vars

\* The performance computation over every small portfolio table.
InitPerf == InitWith(SimpleFeeds, Tables(PerfRows, MaxHoldings), {TRUE})
NextPerf == CalculatePerformanceForOwner \/ CalculatePerformance
SpecPerf == InitPerf /\ [][NextPerf]_vars

\* The valuation computation over every small portfolio table.
InitVal == InitWith(SimpleFeeds, Tables(ValRows, MaxValHoldings), {TRUE})
NextVal == FetchPrices \/ CalculatePortfolioValues
SpecVal == InitVal /\ [][NextVal]_vars

\* Valuation upserts, one call after the other, over the days.
InitUpsert == InitWith({CHOOSE f \in SimpleFeeds : TRUE}, {<< >>}, {TRUE})
NextUpsert == UpdatePortfolioValues \/ Tick
SpecUpsert == InitUpsert /\ [][NextUpsert]_vars

\* Two runs whose valuation upserts overlap.
InitRace == InitUpsert
NextRace == \E w \in Writers : Enter(w) \/ Lookup(w) \/ Write(w) \/ Commit(w)
SpecRace == InitRace /\ [][NextRace]_vars

\* Holdings for the runs: one portfolio, numeric purchase prices.
MaxRunHoldings == 2
RunRows ==
  [owner : Owners, portfolioName : {"P1"}, stockSymbol : Symbols,
   purchasePrice : {Num(Mills(100))},
   purchaseQty : {Num(10)}, additionalQty : {NA}]

\* The performance calculator and the notifier, with the notifications on
\* and off.
InitNotify ==
  InitCommon(SimpleFeeds, Tables(RunRows, MaxRunHoldings), {TRUE}, BOOLEAN,
             {[w \in 1..2 |-> Idle]})
NextNotify ==
  CalculatePerformanceForOwner \/ CalculatePerformance \/ SendEmailNotification
SpecNotify == InitNotify /\ [][NextNotify]_vars

\* Runs of the valuator and of main, one after the other.
InitRun == InitNotify
NextRun == CalculatePortfolioValue \/ Main
SpecRun == InitRun /\ [][NextRun]_vars

\* Runs of the valuator, of main and of the portfolio manager, one after the
\* other, over the holdings of one owner.
OrderRows == {h \in RunRows : h.owner = OwnerList[1]}
InitOrder ==
  InitCommon(SimpleFeeds, Tables(OrderRows, MaxRunHoldings), {TRUE}, BOOLEAN,
             {[w \in 1..2 |-> Idle]})
NextOrder == CalculatePortfolioValue \/ Main \/ Run
SpecOrder == InitOrder /\ [][NextOrder]_vars

\* ------------------------------------------------- claims on fetch_prices
\* PRICE_VALIDATION: a price within the configured bounds.
WithinBounds(p) == p > Mills(MIN_PRICE) /\ p <= Mills(MAX_PRICE)

RetryCount(src) == IF src = "yahoo" THEN YAHOO_RETRY_COUNT ELSE GOOGLE_RETRY_COUNT

\* The source never answers within its retry budget.
FailsAll(b, n) == \A k \in 1..n : ~IsNum(Attempt(b, k))

\* The source fails n-1 attempts and answers a valid price on attempt n.
SucceedsOnLast(b, n) ==
  /\ \A k \in 1..(n - 1) : ~IsNum(Attempt(b, k))
  /\ IsNum(Attempt(b, n)) /\ WithinBounds(Attempt(b, n).v)

HasQuote(s) == IsValue(prices) /\ s \in DOMAIN prices.items
QuoteFrom(s, src) == HasQuote(s) /\ prices.items[s].source = src

\* C1: when the first source (yahoo) always fails for a requested symbol, then
\* with enable_fallback_sources set the symbol's quote is the second source's
\* (google), and with the flag cleared google is never consulted and the
\* symbol is absent from the mapping.
C1_FallbackFlag ==
  IsValue(prices) =>
    \A s \in req :
      FailsAll(feed[s].yahoo, YAHOO_RETRY_COUNT) =>
        IF enable_fallback_sources
        THEN HasQuote(s) =>
               /\ prices.items[s].source = "google"
               /\ Num(prices.items[s].price) = Attempt(feed[s].google, 1)
        ELSE calls[s].google = 0 /\ ~HasQuote(s)

\* C2: a source that fails its first N-1 attempts and answers on attempt N
\* (N its retry_count) gives the symbol's quote, with no fallback; a source
\* that fails all N attempts gives no quote.
C2_RetryCount ==
  IsValue(prices) =>
    \A s \in req :
      /\ SucceedsOnLast(feed[s].yahoo, YAHOO_RETRY_COUNT) =>
           /\ QuoteFrom(s, "yahoo")
           /\ prices.items[s].price = feed[s].yahoo.price.v
           /\ calls[s].google = 0
      /\ FailsAll(feed[s].yahoo, YAHOO_RETRY_COUNT) => ~QuoteFrom(s, "yahoo")
      /\ (FailsAll(feed[s].yahoo, YAHOO_RETRY_COUNT)
            /\ SucceedsOnLast(feed[s].google, GOOGLE_RETRY_COUNT)) =>
           /\ QuoteFrom(s, "google")
           /\ prices.items[s].price = feed[s].google.price.v
      /\ FailsAll(feed[s].google, GOOGLE_RETRY_COUNT) => ~QuoteFrom(s, "google")

\* C3: with validate_prices set, every quote fetch_prices returns or stores
\* has min_price < price <= max_price.
C3_ValidatedQuotes ==
  validate_prices =>
    /\ IsValue(prices) =>
         \A s \in DOMAIN prices.items : WithinBounds(prices.items[s].price)
    /\ \A r \in stockprice : WithinBounds(r.price)

\* C4: with validate_prices set, a source result equal to min_price is the
\* symbol's quote, and a result below min_price counts as that source's
\* failure: the next source is consulted and gives the quote if its price is
\* acceptable.
C4_MinPriceBoundary ==
  (validate_prices /\ IsValue(prices)) =>
    \A s \in req :
      LET y == Attempt(feed[s].yahoo, 1)
          g == Attempt(feed[s].google, 1)
      IN  /\ (IsNum(y) /\ y.v = Mills(MIN_PRICE)) =>
               (QuoteFrom(s, "yahoo") /\ prices.items[s].price = y.v)
          /\ (IsNum(y) /\ y.v < Mills(MIN_PRICE)) =>
               /\ ~QuoteFrom(s, "yahoo")
               /\ calls[s].google > 0
               /\ (IsNum(g) /\ g.v >= Mills(MIN_PRICE) /\ g.v <= Mills(MAX_PRICE)) =>
                    (QuoteFrom(s, "google") /\ prices.items[s].price = g.v)

\* Some source answers a price within the bounds inside its retry budget.
YieldsValid(s) ==
  \E src \in {"yahoo", "google"} :
    \E k \in 1..RetryCount(src) :
      LET r == Attempt(feed[s][src], k) IN IsNum(r) /\ WithinBounds(r.v)

\* C5: the keys of the returned mapping are exactly the requested symbols for
\* which some source returns a valid price, each entry carrying the price and
\* the label of the source it names.
C5_ExactCoverage ==
  IsValue(prices) =>
    /\ DOMAIN prices.items = {s \in req : YieldsValid(s)}
    /\ \A s \in DOMAIN prices.items :
         LET q == prices.items[s]
         IN  /\ q.source \in {"yahoo", "google"}
             /\ feed[s][q.source].price = Num(q.price)
             /\ WithinBounds(q.price)

\* ------------------------------------------- claims on the stockprice table
StoredQuotes(k) == {r \in stockprice : PriceKey(r) = k}

\* C6: after any sequence of fetch cycles the stockprice table holds, for
\* every (stockSymbol, priceDate), exactly the quote of the latest cycle that
\* returned the symbol on that date and nothing else; every symbol of the
\* last returned mapping has its row, all written on one date.
C6_LatestQuotePerKey ==
  /\ \A k \in Symbols \X Days :
       StoredQuotes(k) =
         {[stockSymbol |-> k[1], price |-> q.price, priceDate |-> k[2],
           source |-> q.source] : q \in Range(latest[k])}
  /\ (IsValue(prices) /\ DOMAIN prices.items # {}) =>
       \E d \in Days :
         \A s \in DOMAIN prices.items :
           [stockSymbol |-> s, price |-> prices.items[s].price, priceDate |-> d,
            source |-> prices.items[s].source] \in stockprice

\* Day 2: the last cycle returned X alone, from another source than on day 1,
\* and the quotes of Y of both days are still stored.
C6_Witness ==
  /\ today = 2
  /\ IsValue(prices) /\ DOMAIN prices.items = {"X"}
  /\ \E r1, r2 \in stockprice :
       /\ r1.stockSymbol = "X" /\ r1.priceDate = 1
       /\ r2.stockSymbol = "X" /\ r2.priceDate = 2
       /\ r2.source = prices.items["X"].source
       /\ r1.source # r2.source
  /\ \E r1, r2 \in stockprice :
       /\ r1.stockSymbol = "Y" /\ r1.priceDate = 1
       /\ r2.stockSymbol = "Y" /\ r2.priceDate = 2
  /\ Cardinality(stockprice) = 4

\* ------------------------------------- claims on the performance calculator
HoldingKey(h) ==
  <<h.owner, h.portfolioName, h.stockSymbol, ToNumeric(h.purchasePrice)>>
RowKey(r) == <<r.owner, r.portfolioName, r.stockSymbol, r.purchasePrice>>

\* C7: calculate_performance_for_owner returns a row for every holding of the
\* owner whenever some quote was fetched, the rows of holdings without a
\* quote having a null performance (stated for owners whose purchase prices
\* are all numbers).
C7_EveryHoldingHasRow ==
  LET mine == HoldingsOf(portfolio, perf_owner)
  IN  (perf_owner \in Owners /\ Len(mine) > 0
         /\ (\A i \in 1..Len(mine) : IsNum(ToNumeric(mine[i].purchasePrice)))
         /\ IsValue(prices) /\ DOMAIN prices.items # {}) =>
        /\ IsValue(performance_data)
        /\ Len(performance_data.items) = Len(mine)
        /\ \A i \in 1..Len(mine) :
             Cardinality({j \in 1..Len(mine) :
                            RowKey(performance_data.items[j]) = HoldingKey(mine[i])})
               = Cardinality({j \in 1..Len(mine) :
                                HoldingKey(mine[j]) = HoldingKey(mine[i])})
        /\ \A j \in 1..Len(mine) :
             performance_data.items[j].stockSymbol \notin DOMAIN prices.items
               => performance_data.items[j].performance = NA

Abs(x) == IF x < 0 THEN -x ELSE x

\* r is n/d (d > 0) rounded to the nearest integer, a half to the even one.
IsRounded(r, n, d) ==
  /\ 2 * Abs(r * d - n) <= d
  /\ 2 * Abs(r * d - n) = d => r % 2 = 0

\* C8: in every row of _calculate_performance, performance is
\* (price - purchasePrice) / purchasePrice * 100 rounded to two places when
\* price and purchasePrice are numbers, and null otherwise; a holding whose
\* purchasePrice is no number gets a row with a null purchasePrice and a null
\* performance, and the computation returns its rows.
C8_PerformanceFormula ==
  /\ IsValue(performance_data) =>
       \A i \in 1..Len(performance_data.items) :
         LET r == performance_data.items[i]
         IN  IF IsNum(r.price) /\ IsNum(r.purchasePrice)
             THEN /\ IsNum(r.performance)
                  /\ IsRounded(r.performance.v,
                               (r.price.v - r.purchasePrice.v) * 10000,
                               r.purchasePrice.v)
             ELSE r.performance = NA
  /\ perf_owner = "direct" =>
       /\ IsValue(performance_data)
       /\ Len(performance_data.items) = Len(portfolio)
       /\ \A i \in 1..Len(portfolio) :
            portfolio[i].purchasePrice = Str("n/a") =>
              \E j \in 1..Len(performance_data.items) :
                LET r == performance_data.items[j]
                IN  /\ r.owner = portfolio[i].owner
                    /\ r.stockSymbol = portfolio[i].stockSymbol
                    /\ r.purchasePrice = NA
                    /\ r.performance = NA

\* 100 -> 110 gives 10.00, 64 -> 110 gives 71.875, rounded to 71.88, and a
\* purchase price that is no number gives null, in one result.
C8_Witness ==
  /\ perf_owner = "direct"
  /\ IsValue(performance_data)
  /\ \E i, j, k \in 1..Len(performance_data.items) :
       /\ performance_data.items[i].purchasePrice = Num(Mills(100))
       /\ performance_data.items[i].price = Num(Mills(110))
       /\ performance_data.items[i].performance = Num(1000)
       /\ performance_data.items[j].purchasePrice = Num(Mills(64))
       /\ performance_data.items[j].performance = Num(7188)
       /\ performance_data.items[k].purchasePrice = NA
       /\ IsNum(performance_data.items[k].price)
       /\ performance_data.items[k].performance = NA

\* C9: the returned rows are sorted by performance, descending, and every row
\* with a null performance comes after every row with a performance.
C9_SortedNullsLast ==
  IsValue(performance_data) =>
    \A i, j \in 1..Len(performance_data.items) :
      i < j =>
        LET a == performance_data.items[i].performance
            b == performance_data.items[j].performance
        IN  /\ ~IsNum(a) => ~IsNum(b)
            /\ (IsNum(a) /\ IsNum(b)) => a.v >= b.v

\* The table starts with a holding that gets a null performance and goes on
\* with a lower and a higher performance; the result is higher, lower, null.
C9_Witness ==
  /\ perf_owner = "direct"
  /\ IsValue(performance_data)
  /\ Len(portfolio) = 3 /\ Len(performance_data.items) = 3
  /\ portfolio[1].purchasePrice = Str("n/a")
  /\ portfolio[2].purchasePrice = Num(Mills(100))
  /\ portfolio[3].purchasePrice = Str("64")
  /\ performance_data.items[1].performance = Num(7188)
  /\ performance_data.items[2].performance = Num(1000)
  /\ performance_data.items[3].performance = NA

\* --------------------------------------- claims on the valuation aggregator
RECURSIVE SumOver(_, _)
SumOver(S, f) ==
  IF S = {} THEN 0
  ELSE LET i == CHOOSE i \in S : TRUE IN f[i] + SumOver(S \ {i}, f)

\* The sum over the holdings of a group of price * (purchaseQty +
\* additionalQty), a holding without a quote counting 0; in thousandths.
GroupSum(p, o) ==
  LET members == {i \in 1..Len(portfolio) :
                    portfolio[i].portfolioName = p /\ portfolio[i].owner = o}
      term == [i \in 1..Len(portfolio) |->
                 IF portfolio[i].stockSymbol \in DOMAIN valued_prices.items
                 THEN valued_prices.items[portfolio[i].stockSymbol].price
                        * (portfolio[i].purchaseQty.v
                             + (IF IsNum(portfolio[i].additionalQty)
                                THEN portfolio[i].additionalQty.v ELSE 0))
                 ELSE 0]
  IN  SumOver(members, term)

\* One valuation for every (portfolioName, owner) pair of the holdings.
OnePerGroup ==
  LET vals == portfolio_values.items
  IN  /\ \A i, j \in 1..Len(vals) :
           (vals[i].portfolioName = vals[j].portfolioName
              /\ vals[i].owner = vals[j].owner) => i = j
      /\ {<<vals[i].portfolioName, vals[i].owner>> : i \in 1..Len(vals)}
           = {<<portfolio[i].portfolioName, portfolio[i].owner>> :
                i \in 1..Len(portfolio)}

\* C10 as stated: one valuation per distinct (portfolioName, owner) pair, its
\* value equal to the sum over the group's holdings of
\* price * (purchaseQty + additionalQty).
C10_ValueIsSum ==
  IsValue(portfolio_values) =>
    /\ OnePerGroup
    /\ \A i \in 1..Len(portfolio_values.items) :
         LET v == portfolio_values.items[i]
         IN  v.value * 10 = GroupSum(v.portfolioName, v.owner)

\* C10 as amended: one valuation per distinct (portfolioName, owner) pair, its
\* value equal to that sum rounded to two decimal places.
C10_ValueIsRoundedSum ==
  IsValue(portfolio_values) =>
    /\ OnePerGroup
    /\ \A i \in 1..Len(portfolio_values.items) :
         LET v == portfolio_values.items[i]
         IN  IsRounded(v.value, GroupSum(v.portfolioName, v.owner), 10)

\* One group of two holdings: 11 shares of X at 33.007 and Y without a
\* quote, valued 363.08.
C10_Witness ==
  /\ IsValue(portfolio_values)
  /\ Len(portfolio) = 2
  /\ portfolio[1].stockSymbol = "X" /\ portfolio[1].additionalQty = Num(1)
  /\ portfolio[2].stockSymbol = "Y"
  /\ DOMAIN valued_prices.items = {"X"}
  /\ valued_prices.items["X"].price = GoogleValid
  /\ Len(portfolio_values.items) = 1
  /\ portfolio_values.items[1].value = 36308

\* ------------------------------------------------ claims on the source order

Occurs(src, order) == \E i \in 1..Len(order) : order[i] = src

\* C15: for every requested symbol the sources are invoked in priority order:
\* yahoo is invoked first, google is invoked only after yahoo has yielded no
\* price for the symbol, and google is never invoked for a symbol whose yahoo
\* result is accepted.
C15_SourceOrder ==
  \A s \in req :
    LET order == call_order[s]
    IN  /\ Len(order) >= 1 /\ order[1] = "yahoo"
        /\ \A i \in 1..Len(order) :
             order[i] = "google" =>
               /\ i > 1 /\ order[i - 1] = "yahoo"
               /\ ~IsNum(Attempt(feed[s].yahoo, 1))
        /\ QuoteFrom(s, "yahoo") => ~Occurs("google", order)

\* One symbol is answered by yahoo alone, another by google after yahoo.
C15_Witness ==
  /\ \E s \in req : QuoteFrom(s, "yahoo") /\ call_order[s] = <<"yahoo">>
  /\ \E s \in req : QuoteFrom(s, "google") /\ call_order[s] = <<"yahoo", "google">>

\* ------------------------------------------ claims on the valuation upsert

RowsOf(k) == {r \in portfoliovalue : PvKey(r) = k}

\* C11: after any number of sequential valuation upserts for the same
\* (portfolioName, owner, valuationDate) the table holds exactly one row for
\* that key, its value is the value of the last committed upsert, and a row
\* that was there before a call is the same row, by id and key, after it.
C11_UpsertIdempotent ==
  /\ \A k \in PvKeys :
       IF IsValue(last_upsert[k])
       THEN /\ Cardinality(RowsOf(k)) = 1
            /\ \A r \in RowsOf(k) : r.value = last_upsert[k].items
       ELSE RowsOf(k) = {}
  /\ \A r \in pv_before :
       \E q \in portfoliovalue : q.id = r.id /\ PvKey(q) = PvKey(r)

\* A committed call has replaced the value of a row that was already there.
C11_Witness ==
  /\ upsert_ok = "True"
  /\ \E r \in pv_before :
       \E q \in portfoliovalue :
         /\ q.id = r.id /\ PvKey(q) = PvKey(r) /\ q.value # r.value
         /\ \E i \in 1..Len(upsert_arg) :
              PvKey(upsert_arg[i]) = PvKey(r) /\ upsert_arg[i].value = q.value

\* C16: the valuation upserts of one call are atomic: when a lookup, an
\* update, an insert or the commit fails, the table is what it was before the
\* call; when none fails, every entry of the call is in the table.
C16_AtomicUpserts ==
  /\ upsert_ok = "False" => portfoliovalue = pv_before
  /\ upsert_ok = "True" =>
       \A i \in 1..Len(upsert_arg) :
         \E r \in portfoliovalue :
           PvKey(r) = PvKey(upsert_arg[i]) /\ r.value = upsert_arg[i].value

\* A call of two entries failed after the write of its first entry, which
\* would have changed the table.
C16_Witness ==
  /\ upsert_ok = "False"
  /\ Len(upsert_arg) = 2
  /\ upsert_fail >= 3
  /\ UpsertOne(pv_before, upsert_arg[1]) # pv_before
  /\ portfoliovalue = pv_before

\* C17: when two runs interleave their valuation upserts for the same
\* (portfolioName, owner, valuationDate), then once both are through the
\* table holds exactly one row for that key, with the value of the run that
\* committed last.
C17_LastWriterWins ==
  ((\A w \in Writers : AtRest(w)) /\ Len(commit_order) > 0) =>
    LET rows == RowsOf(PvKey(RaceEntry(0)))
    IN  /\ Cardinality(rows) = 1
        /\ \A r \in rows : r.value = commit_order[Len(commit_order)]

\* ------------------------------------------------- claims on the notifier

\* C13: send_email_notification never raises to its caller, and what it
\* returns tells a sent report from a failed or skipped one: it reports
\* success exactly when the message was handed to the server.
C13_NotifierResult ==
  notify_ret # "unset" =>
    /\ notify_ret # "raised"
    /\ (emails_sent = 1) <=> (notify_ret = "True")

\* ---------------------------------------------- claims on the price age

\* The age of a row's quote in days: 0 without a priceDate or with today's.
AgeOf(row) ==
  IF "priceDate" \notin DOMAIN row THEN 0
  ELSE IF ~IsNum(row.priceDate) THEN 0
  ELSE today - row.priceDate.v

\* C14: every performance row carries price_age_days, equal to today minus
\* the quote's priceDate, and 0 when the priceDate is missing, is today or
\* cannot be parsed.
C14_PriceAgeDays ==
  IsValue(performance_data) =>
    \A i \in 1..Len(performance_data.items) :
      LET row == performance_data.items[i]
      IN  /\ "price_age_days" \in DOMAIN row
          /\ row.price_age_days = AgeOf(row)

\* ------------------------------------------------------ claims on the runs

\* C12: a valuation run over non-empty holdings for which at least one quote
\* is fetched persists a valuation row for today for every (portfolioName,
\* owner) group of the holdings: once the run has returned, the rows are in
\* the table.
C12_ValuationPersisted ==
  (/\ run_log.run = "valuation"
   /\ Len(portfolio) > 0
   /\ IsValue(prices) /\ DOMAIN prices.items # {}) =>
    \A k \in Range(GroupKeys(portfolio)) :
      \E r \in portfoliovalue : PvKey(r) = <<k[1], k[2], today>>

LaterSteps == {"performance", "summary", "upsert", "notify"}

\* C19: the quotes the fetch step of a run committed are in the price table,
\* as fetched, when a later step of that run has failed.
C19_QuotesSurvive ==
  run_log.failed \in LaterSteps =>
    /\ IsValue(prices) /\ DOMAIN prices.items # {}
    /\ \A s \in DOMAIN prices.items :
         [stockSymbol |-> s, price |-> prices.items[s].price,
          priceDate |-> today, source |-> prices.items[s].source] \in stockprice

\* A valuation run fetched and stored quotes, then failed at the performance
\* step and returned False.
C19_Witness ==
  /\ run_log = Log("valuation", "performance", FALSE)
  /\ run_ret = "False"
  /\ \E r \in stockprice : r.stockSymbol \in DOMAIN prices.items

\* No holdings, or no quote for any symbol of the holdings.
NothingToValue(data) ==
  Len(data) = 0 \/ DOMAIN PricesDict(feed, SymbolsOf(data)) = {}

\* C20: a run with no holdings, no holdings for the requested owner or no
\* quote for any symbol is skipped without a crash: no exception leaves it, no
\* valuation row is written, no performance rows are produced and no
\* notification is sent.
C20_SkippedRun ==
  /\ (run_log.run = "valuation" /\ NothingToValue(portfolio)) =>
       /\ run_ret = "False"
       /\ portfoliovalue = {}
       /\ emails_sent = 0
  /\ (run_log.run = "main"
      /\ NothingToValue(HoldingsOf(portfolio, main_args.owner))) =>
       /\ main_exc = "None"
       /\ portfoliovalue = {}
       /\ ~IsValue(performance_data)
       /\ emails_sent = 0

\* ----------------------------------------------- claims on the step order

\* The place of a step among the steps of the last run, 0 when it is absent.
StepAt(step) ==
  IF \E i \in 1..Len(run_steps) : run_steps[i] = step
  THEN CHOOSE i \in 1..Len(run_steps) :
         /\ run_steps[i] = step
         /\ \A j \in 1..(i - 1) : run_steps[j] # step
  ELSE 0

Before(a, b) == StepAt(a) # 0 /\ StepAt(a) < StepAt(b)

\* C21: within one run the steps happen in one linear order: the prices are
\* fetched before performance is computed, performance is computed before a
\* valuation is persisted, and a notification is sent only after the
\* valuation of that run has been persisted.
C21_LinearOrder ==
  /\ StepAt("performance") # 0 => Before("fetch", "performance")
  /\ StepAt("valuation") # 0 => Before("performance", "valuation")
  /\ StepAt("notify") # 0 => Before("valuation", "notify")

====
